---- MODULE Spec2Model ----
(***************************************************************************)
(* The browser command surface of openclaw: the CLI commands of            *)
(* src/cli/browser-cli-actions-observe.ts and src/cli/browser-cli-debug.ts *)
(* and the control service they talk to.  A command is a short-lived       *)
(* process: it validates its arguments, sends its requests one after the   *)
(* other (each `await` is a point where the browser and its user may act), *)
(* and prints the result or reports the error and exits with status 1.     *)
(* The control service (../browser/client.js and what is behind it) is     *)
(* modelled from the specification: its handlers are atomic steps, except  *)
(* the tab action, which resolves its target and then acts on it, and the  *)
(* response wait, which stays suspended until it is answered.              *)
(*                                                                         *)
(* Strings the code inspects (target ids, profile names, urls) are         *)
(* sequences of one-character strings; opaque messages are TLA+ strings.   *)
(***************************************************************************)
EXTENDS Integers, Sequences, FiniteSets, TLC

\* ------------------------------------------------------------------ bounds
MaxTabs == 3
MaxResponses == 3
MaxErrors == 3
MaxProfiles == 4
MaxLaunches == 3

\* ------------------------------------------------------------ value helpers
\* JavaScript `undefined` for a string-valued option
Undefined == <<"undefined">>

\* JavaScript `undefined` for an option whose text the code never looks into
Unset == "undefined"

\* a JavaScript number given on the command line: Number(v).  Finite values
\* are kept in halves (h = 2 * value) so that Math.floor is not the identity.
NaN == [k |-> "nan"]
Infinity == [k |-> "inf"]
Num(h) == [k |-> "num", h |-> h]

\* an option that was not given
NoNumber == [k |-> "undefined"]

\* Number.isFinite
IsFinite(x) == x.k = "num"

\* Math.floor
Floor(x) == x.h \div 2

\* x < 1 on JavaScript numbers (false for NaN and for Infinity)
LessThanOne(x) == x.k = "num" /\ x.h < 2

\* a whole number of milliseconds
Ms(x) == x.h \div 2

\* the timeout the help text of --timeout-ms documents as the default
DefaultTimeoutMs == 20000

\* String.prototype.trim
RECURSIVE TrimStart(_)
TrimStart(s) == IF s # <<>> /\ Head(s) = " " THEN TrimStart(Tail(s)) ELSE s

RECURSIVE TrimEnd(_)
TrimEnd(s) == IF s # <<>> /\ s[Len(s)] = " " THEN TrimEnd(SubSeq(s, 1, Len(s) - 1)) ELSE s

Trim(s) == TrimEnd(TrimStart(s))

\* opts.targetId?.trim() || undefined
TrimOrUndefined(s) ==
    IF s = Undefined THEN Undefined
    ELSE IF Trim(s) = <<>> THEN Undefined
    ELSE Trim(s)

\* String.prototype.startsWith
StartsWith(t, s) == Len(s) <= Len(t) /\ SubSeq(t, 1, Len(s)) = s

\* the profile the CLI falls back to when a status names none
DefaultProfile == <<"c", "l", "a", "w", "d">>
Work == <<"w", "1">>

\* the target ids a session hands out
TargetIds == { <<"A">>, <<"A", "1">>, <<"A", "2">> }

\* references typed by the operator
RefInputs == { <<>>, <<"A">>, <<"A", "1">>, <<"A", "2">>, <<"Z">>, <<"A", " ">> }

\* index arguments typed by the operator, after Number(v)
IndexInputs == { NaN, Infinity } \cup { Num(h) : h \in { -2, 0, 1, 2, 3, 4, 6, 8 } }

ProfileInputs == { Undefined, Work }

\* --name values typed by the operator
NameInputs == { <<"a">>, <<"a", "-", "1">>, Work, <<>>, <<"A">>, <<"a", " ">> }

\* the characters of [a-z0-9-]
NameChars ==
    { "a", "b", "c", "d", "e", "f", "g", "h", "i", "j", "k", "l", "m",
      "n", "o", "p", "q", "r", "s", "t", "u", "v", "w", "x", "y", "z",
      "0", "1", "2", "3", "4", "5", "6", "7", "8", "9", "-" }

\* a name matches [a-z0-9-]+
ValidName(n) == n # <<>> /\ \A k \in 1 .. Len(n) : n[k] \in NameChars

\* --target-id values typed by the operator
TargetIdInputs == { Undefined, <<" ">>, <<"A", " ">>, <<"Z">> }

\* urls of the responses a page receives, and the patterns typed by the operator
UrlInputs == { <<"a", "/", "b">>, <<"a", "/", "c">> }
PatternInputs == { <<"a", "/", "b">>, <<"/", "c">>, <<"*", "*", "/", "b">>, <<"*", "/", "c">>, <<"z">> }

\* --max-chars values, after Number(v): absent, not a number, 50, 150000, 200000
MaxCharsInputs == { NoNumber, NaN, Num(100), Num(300000), Num(400000) }

\* the bodies of the responses: empty, 100 and 200000 times x, and 150000
\* times x followed by 350000 times y
BodyInputs ==
    { <<>>, <<[c |-> "x", n |-> 100]>>, <<[c |-> "x", n |-> 200000]>>,
      <<[c |-> "x", n |-> 150000], [c |-> "y", n |-> 350000]>> }

\* --timeout-ms values, after Number(v): absent, not a number, 50 ms, 30000 ms
TimeoutInputs == { NoNumber, NaN, Num(100), Num(60000) }

\* the instants, in ms since a wait began, at which something may happen
TimePoints == { 25, 50, 10000, 20000, 30000 }

\* ------------------------------------------------------------------- state
VARIABLES
    registry,   \* service: the profiles, in list() order
    tabs,       \* service: per profile, the ordered list of open target ids
    focused,    \* service: per profile, the focused target id, or Undefined
    now,        \* service: ms elapsed since the current wait began
    waiter,     \* service: the response wait of the request being served
    seen,       \* the responses completed since the current wait began, in order
    traces,     \* service: per target, the active traces
    errorBuf,   \* service: per target, the page errors not yet cleared, oldest first
    arrived,    \* the number of page errors raised so far (they are numbered from 1)
    drained,    \* the page errors printed so far by `errors --clear` commands
    evaluated,  \* service: the matching modes evaluated for the last response, in order
    session,    \* service: per profile, the session handle (running, endpoint)
    instances,  \* per profile, the number of live browser processes
    launches,   \* the number of browser processes launched so far
    reachable,  \* whether the control service accepts connections
    resolving,  \* service: the tab action whose target is resolved and not yet acted on
    pc,         \* CLI process: "idle", "running", "done"
    cmd,        \* CLI process: the command and its parsed arguments
    pending,    \* CLI process: the requests still to send, in order
    resp,       \* CLI process: the results received so far
    stdout,     \* CLI process: what defaultRuntime.log printed
    stderr,     \* CLI process: what defaultRuntime.error printed
    exit        \* CLI process: <<>> while running, <<code>> once exited

sessionVars == <<registry, tabs, focused>>
waitVars == <<now, waiter, seen, evaluated>>
debugVars == <<traces, errorBuf, arrived, drained>>
hostVars == <<session, instances, launches, reachable>>
serviceVars == <<sessionVars, waitVars, debugVars, hostVars, resolving>>
cliVars == <<pc, cmd, pending, resp, stdout, stderr, exit>>
vars == <<registry, tabs, focused, now, waiter, seen, traces, errorBuf, arrived, drained,
          evaluated, session, instances, launches, reachable, resolving,
          pc, cmd, pending, resp, stdout, stderr, exit>>

\* every profile name the registry can come to hold
Profiles == { n \in NameInputs \cup { DefaultProfile, Work } : ValidName(n) }

\* a profile record of the registry
Profile(name, color, cdpUrl, driver) ==
    [name |-> name, color |-> color, cdpUrl |-> cdpUrl, driver |-> driver]

\* the session handle of a profile that is not running
NoSession == [running |-> FALSE, endpoint |-> 0]

Init ==
    /\ registry = <<Profile(DefaultProfile, Unset, Unset, Unset),
                    Profile(Work, Unset, Unset, Unset)>>
    /\ tabs = [p \in Profiles |-> <<>>]
    /\ focused = [p \in Profiles |-> Undefined]
    /\ now = 0
    /\ waiter = [state |-> "none"]
    /\ seen = <<>>
    /\ traces = [t \in Profiles \X TargetIds |-> <<>>]
    /\ errorBuf = [t \in Profiles \X TargetIds |-> <<>>]
    /\ arrived = 0
    /\ drained = <<>>
    /\ evaluated = <<>>
    /\ session = [p \in Profiles |-> NoSession]
    /\ instances = [p \in Profiles |-> 0]
    /\ launches = 0
    /\ reachable = TRUE
    /\ resolving = [state |-> "none"]
    /\ pc = "idle"
    /\ cmd = [kind |-> "none"]
    /\ pending = <<>>
    /\ resp = <<>>
    /\ stdout = <<>>
    /\ stderr = ""
    /\ exit = <<>>

\* ------------------------------------------------- the control service (spec)
Range(q) == { q[k] : k \in 1 .. Len(q) }

\* the names of a profile list
Names(profiles) == { profiles[k].name : k \in 1 .. Len(profiles) }

Ok(v) == [ok |-> TRUE, value |-> v]
Fail(e) == [ok |-> FALSE, err |-> e]

\* Session Resolver: the profile a request addresses
ResolveSession(profile) ==
    IF profile = Undefined THEN Ok(DefaultProfile)
    ELSE IF profile \in Names(registry) THEN Ok(profile)
    ELSE Fail("UnknownProfile")

byIndex(i) == [type |-> "byIndex", i |-> i]
byIdOrPrefix(s) == [type |-> "byIdOrPrefix", s |-> s]
unspecified == [type |-> "unspecified"]

\* Target Resolver: one target of the live list, or a typed failure
resolve(sessionTargets, ref) ==
    IF ref.type = "byIndex" THEN
        IF ref.i < 1 \/ ref.i > Len(sessionTargets) THEN Fail("IndexOutOfRange")
        ELSE Ok(sessionTargets[ref.i])
    ELSE IF ref.type = "byIdOrPrefix" THEN
        LET exact == { k \in 1 .. Len(sessionTargets) : sessionTargets[k] = ref.s }
            prefix == { k \in 1 .. Len(sessionTargets) : StartsWith(sessionTargets[k], ref.s) }
        IN  IF exact # {} THEN Ok(sessionTargets[CHOOSE k \in exact : TRUE])
            ELSE IF prefix = {} THEN Fail("TargetNotFound")
            ELSE IF Cardinality(prefix) > 1 THEN Fail("AmbiguousTarget")
            ELSE Ok(sessionTargets[CHOOSE k \in prefix : TRUE])
    ELSE
        IF sessionTargets = <<>> THEN Fail("NoTargetsOpen")
        ELSE Ok(sessionTargets[1])

\* the glob mode of url matching: `**` is any run of characters, `*` any run
\* without "/", anything else stands for itself; the whole url must match
RECURSIVE GlobMatch(_, _)
GlobMatch(p, u) ==
    IF p = <<>> THEN u = <<>>
    ELSE IF Len(p) >= 2 /\ p[1] = "*" /\ p[2] = "*" THEN
        \E k \in 0 .. Len(u) : GlobMatch(SubSeq(p, 3, Len(p)), SubSeq(u, k + 1, Len(u)))
    ELSE IF p[1] = "*" THEN
        \E k \in 0 .. Len(u) :
            /\ \A j \in 1 .. k : u[j] # "/"
            /\ GlobMatch(Tail(p), SubSeq(u, k + 1, Len(u)))
    ELSE u # <<>> /\ u[1] = p[1] /\ GlobMatch(Tail(p), Tail(u))

\* String.prototype.includes
Includes(u, p) == \E k \in 0 .. Len(u) - Len(p) : SubSeq(u, k + 1, k + Len(p)) = p

\* urlPattern matching: exact equality, else substring, else glob
\* Event Waiter matching: exact, else substring, else glob; modes lists the
\* modes that were evaluated, in order
MatchModes(pattern, url) ==
    IF url = pattern THEN [matched |-> TRUE, modes |-> <<"exact">>]
    ELSE IF Includes(url, pattern) THEN [matched |-> TRUE, modes |-> <<"exact", "substring">>]
    ELSE [matched |-> GlobMatch(pattern, url), modes |-> <<"exact", "substring", "glob">>]

Matches(pattern, url) == MatchModes(pattern, url).matched

\* a response body, run-length encoded: the runs [c, n] stand for n times the
\* character c; Length is body.length
RECURSIVE Length(_)
Length(body) == IF body = <<>> THEN 0 ELSE Head(body).n + Length(Tail(body))

\* the first m characters of a body
RECURSIVE Take(_, _)
Take(body, m) ==
    IF body = <<>> \/ m <= 0 THEN <<>>
    ELSE IF Head(body).n <= m THEN <<Head(body)>> \o Take(Tail(body), m - Head(body).n)
    ELSE <<[c |-> Head(body).c, n |-> m]>>

\* the maxChars the specification gives as the default
DefaultMaxChars == 200000

\* --------------------------------------------------------- the CLI process
\* runCommandWithRuntime's error callback of the observe commands: report, then exit(1)
runBrowserObserve(err) == [stderr |-> err, exit |-> <<1>>]

\* the same callback of the debug commands
runBrowserDebug(err) == [stderr |-> err, exit |-> <<1>>]

\* faulty variant: the error is reported and the process ends normally
runBrowserCommand_NoExit(err) == [stderr |-> err, exit |-> <<0>>]

\* the same callback of the manage commands
runBrowserCommand(err) == [stderr |-> err, exit |-> <<1>>]

\* the wrapper a command runs its requests in
OnError(c, err) ==
    IF c.kind = "responsebody" THEN runBrowserObserve(err)
    ELSE IF c.kind \in { "errors", "trace start", "trace stop" } THEN runBrowserDebug(err)
    ELSE runBrowserCommand(err)

\* what a command logs once all its requests have succeeded
Output(c, results) ==
    IF c.kind = "focus" THEN <<[text |-> "focused tab", targetId |-> c.targetId]>>
    ELSE IF c.kind = "tab select" THEN <<[text |-> "selected tab", index |-> Floor(c.index)]>>
    ELSE IF c.kind \in { "tab close", "close" } THEN <<[text |-> "closed tab"]>>
    ELSE IF c.kind = "responsebody" THEN <<[text |-> "body", response |-> results[1].value]>>
    ELSE IF c.kind = "create-profile" THEN
        <<[text |-> "Created profile", profile |-> results[1].value.profile,
           loc |-> IF results[1].value.isRemote THEN results[1].value.cdpUrl ELSE "port",
           color |-> results[1].value.color,
           driver |-> IF c.driver = "extension" THEN "extension" ELSE Unset]>>
    ELSE IF c.kind = "delete-profile" THEN
        <<[text |-> "Deleted profile", profile |-> results[1].value.profile,
           note |-> IF results[1].value.deleted THEN "user data removed"
                    ELSE "no user data found"]>>
    ELSE IF c.kind = "trace start" THEN <<[text |-> "trace started"]>>
    ELSE IF c.kind = "trace stop" THEN <<[text |-> "TRACE:", path |-> results[1].value.path]>>
    ELSE IF c.kind = "status" THEN
        <<[text |-> "status",
           profile |-> IF results[1].value.profile = Undefined THEN DefaultProfile
                       ELSE results[1].value.profile,
           running |-> results[1].value.running]>>
    ELSE IF c.kind \in { "start", "stop" } THEN
        <<[text |-> "browser running",
           name |-> IF results[2].value.profile = Undefined THEN DefaultProfile
                    ELSE results[2].value.profile,
           running |-> results[2].value.running]>>
    ELSE IF c.kind = "errors" THEN
        IF results[1].value.errors = <<>> THEN <<[text |-> "No page errors."]>>
        ELSE [k \in 1 .. Len(results[1].value.errors) |->
                 [text |-> "error", error |-> results[1].value.errors[k]]]
    ELSE <<>>

\* the command continues after a request returned r
Reply(r) ==
    IF ~r.ok THEN
        /\ pc' = "done"
        /\ pending' = <<>>
        /\ stderr' = OnError(cmd, r.err).stderr
        /\ exit' = OnError(cmd, r.err).exit
        /\ UNCHANGED <<cmd, resp, stdout>>
    ELSE IF Len(pending) > 1 THEN
        /\ pending' = Tail(pending)
        /\ resp' = Append(resp, r)
        /\ UNCHANGED <<pc, cmd, stdout, stderr, exit>>
    ELSE
        /\ pc' = "done"
        /\ pending' = <<>>
        /\ resp' = Append(resp, r)
        /\ stdout' = Output(cmd, Append(resp, r))
        /\ exit' = <<0>>
        /\ UNCHANGED <<cmd, stderr>>

\* a new process starts: nothing printed, no result yet
Start(c, requests) ==
    /\ pc # "running"
    /\ cmd' = c
    /\ resp' = <<>>
    /\ stdout' = <<>>
    /\ stderr' = ""
    /\ exit' = <<>>
    /\ pending' = requests
    /\ pc' = "running"

\* a new process starts and rejects its arguments
Reject(c, message) ==
    /\ pc # "running"
    /\ cmd' = c
    /\ resp' = <<>>
    /\ stdout' = <<>>
    /\ stderr' = message
    /\ exit' = <<1>>
    /\ pending' = <<>>
    /\ pc' = "done"

\* faulty variant: the profile is not passed on
FocusRequests_NoProfile(targetId, profile) ==
    <<[kind |-> "focus-tab", targetId |-> targetId, profile |-> Undefined]>>

\* faulty variant: the reference is trimmed before it is sent
FocusRequests_Trimmed(targetId, profile) ==
    <<[kind |-> "focus-tab", targetId |-> Trim(targetId), profile |-> profile]>>

\* browserFocusTab(baseUrl, targetId, { profile })
FocusRequests(targetId, profile) ==
    <<[kind |-> "focus-tab", targetId |-> targetId, profile |-> profile]>>

\* `browser focus <targetId>`
Focus(targetId, profile) ==
    /\ Start([kind |-> "focus", targetId |-> targetId, profile |-> profile],
             FocusRequests(targetId, profile))
    /\ UNCHANGED serviceVars

\* faulty variant: the index is rounded, not floored
TabSelectRequests_Rounded(index, profile) ==
    <<[kind |-> "tab-action", action |-> "select", index |-> (index.h + 1) \div 2 - 1,
       profile |-> profile]>>

\* faulty variant: the 1-based index is sent as it is
TabSelectRequests_OneBased(index, profile) ==
    <<[kind |-> "tab-action", action |-> "select", index |-> Floor(index),
       profile |-> profile]>>

\* browserTabAction(baseUrl, { action: "select", index: Math.floor(index) - 1, profile })
TabSelectRequests(index, profile) ==
    <<[kind |-> "tab-action", action |-> "select", index |-> Floor(index) - 1,
       profile |-> profile]>>

\* `browser tab select <index>`
TabSelect(index, profile) ==
    /\ IF ~IsFinite(index) \/ LessThanOne(index)
       THEN Reject([kind |-> "tab select", index |-> index, profile |-> profile],
                   "index must be a positive number")
       ELSE Start([kind |-> "tab select", index |-> index, profile |-> profile],
                  TabSelectRequests(index, profile))
    /\ UNCHANGED serviceVars

\* faulty variant: the 1-based index is sent as it is
TabCloseRequests_OneBased(index, profile) ==
    IF IsFinite(index)
    THEN <<[kind |-> "tab-action", action |-> "close", index |-> Floor(index),
            profile |-> profile]>>
    ELSE <<[kind |-> "tab-action", action |-> "close", profile |-> profile]>>

\* faulty variant: without an index, index 0 is sent
TabCloseRequests_DefaultZero(index, profile) ==
    IF IsFinite(index)
    THEN <<[kind |-> "tab-action", action |-> "close", index |-> Floor(index) - 1,
            profile |-> profile]>>
    ELSE <<[kind |-> "tab-action", action |-> "close", index |-> 0, profile |-> profile]>>

\* browserTabAction(baseUrl, { action: "close", index: idx, profile }), where idx is
\* Math.floor(index) - 1 for a finite number and undefined (left out) otherwise
TabCloseRequests(index, profile) ==
    IF IsFinite(index)
    THEN <<[kind |-> "tab-action", action |-> "close", index |-> Floor(index) - 1,
            profile |-> profile]>>
    ELSE <<[kind |-> "tab-action", action |-> "close", profile |-> profile]>>

\* `browser tab close [index]`
TabClose(index, profile) ==
    /\ IF IsFinite(index) /\ Floor(index) - 1 < 0
       THEN Reject([kind |-> "tab close", index |-> index, profile |-> profile],
                   "index must be >= 1")
       ELSE Start([kind |-> "tab close", index |-> index, profile |-> profile],
                  TabCloseRequests(index, profile))
    /\ UNCHANGED serviceVars

\* faulty variant: the tab is focused before the wait
ResponseBodyRequests_FocusFirst(url, targetId, timeoutMs, maxChars, profile) ==
    <<[kind |-> "focus-tab", targetId |-> Trim(targetId), profile |-> profile],
      [kind |-> "await-response", url |-> url, targetId |-> TrimOrUndefined(targetId),
       timeoutMs |-> IF IsFinite(timeoutMs) THEN timeoutMs ELSE NoNumber,
       maxChars |-> IF IsFinite(maxChars) THEN maxChars ELSE NoNumber,
       profile |-> profile]>>

\* faulty variant: the url is sent as a glob, with * appended
ResponseBodyRequests_GlobSuffix(url, targetId, timeoutMs, maxChars, profile) ==
    <<[kind |-> "await-response", url |-> url \o <<"*">>,
       targetId |-> TrimOrUndefined(targetId),
       timeoutMs |-> IF IsFinite(timeoutMs) THEN timeoutMs ELSE NoNumber,
       maxChars |-> IF IsFinite(maxChars) THEN maxChars ELSE NoNumber,
       profile |-> profile]>>

\* faulty variant: --max-chars is not passed on
ResponseBodyRequests_NoMaxChars(url, targetId, timeoutMs, maxChars, profile) ==
    <<[kind |-> "await-response", url |-> url, targetId |-> TrimOrUndefined(targetId),
       timeoutMs |-> IF IsFinite(timeoutMs) THEN timeoutMs ELSE NoNumber,
       maxChars |-> NoNumber,
       profile |-> profile]>>

\* faulty variant: --timeout-ms is not passed on
ResponseBodyRequests_NoTimeout(url, targetId, timeoutMs, maxChars, profile) ==
    <<[kind |-> "await-response", url |-> url, targetId |-> TrimOrUndefined(targetId),
       timeoutMs |-> NoNumber,
       maxChars |-> IF IsFinite(maxChars) THEN maxChars ELSE NoNumber,
       profile |-> profile]>>

\* faulty variant: the pattern is not passed on
ResponseBodyRequests_NoUrl(url, targetId, timeoutMs, maxChars, profile) ==
    <<[kind |-> "await-response", url |-> <<>>, targetId |-> TrimOrUndefined(targetId),
       timeoutMs |-> IF IsFinite(timeoutMs) THEN timeoutMs ELSE NoNumber,
       maxChars |-> IF IsFinite(maxChars) THEN maxChars ELSE NoNumber,
       profile |-> profile]>>

\* browserResponseBody(baseUrl, { url, targetId, timeoutMs, maxChars, profile })
ResponseBodyRequests(url, targetId, timeoutMs, maxChars, profile) ==
    <<[kind |-> "await-response", url |-> url, targetId |-> TrimOrUndefined(targetId),
       timeoutMs |-> IF IsFinite(timeoutMs) THEN timeoutMs ELSE NoNumber,
       maxChars |-> IF IsFinite(maxChars) THEN maxChars ELSE NoNumber,
       profile |-> profile]>>

\* `browser responsebody <url>`
ResponseBody(url, targetId, timeoutMs, maxChars, profile) ==
    /\ Start([kind |-> "responsebody", url |-> url, targetId |-> targetId,
              timeoutMs |-> timeoutMs, maxChars |-> maxChars, profile |-> profile],
             ResponseBodyRequests(url, targetId, timeoutMs, maxChars, profile))
    /\ UNCHANGED serviceVars

\* faulty variant: the profile is not passed on
TraceStartRequests_NoProfile(targetId, screenshots, snapshots, sources, profile) ==
    <<[kind |-> "start-trace", targetId |-> TrimOrUndefined(targetId),
       screenshots |-> screenshots, snapshots |-> snapshots, sources |-> sources,
       profile |-> Undefined]>>

\* faulty variant: --target-id is not passed on
TraceStartRequests_NoTarget(targetId, screenshots, snapshots, sources, profile) ==
    <<[kind |-> "start-trace", targetId |-> Undefined,
       screenshots |-> screenshots, snapshots |-> snapshots, sources |-> sources,
       profile |-> profile]>>

\* browserTraceStart(baseUrl, { targetId, screenshots, snapshots, sources, profile })
TraceStartRequests(targetId, screenshots, snapshots, sources, profile) ==
    <<[kind |-> "start-trace", targetId |-> TrimOrUndefined(targetId),
       screenshots |-> screenshots, snapshots |-> snapshots, sources |-> sources,
       profile |-> profile]>>

\* `browser trace start`
TraceStart(targetId, screenshots, snapshots, sources, profile) ==
    /\ Start([kind |-> "trace start", targetId |-> targetId, screenshots |-> screenshots,
              snapshots |-> snapshots, sources |-> sources, profile |-> profile],
             TraceStartRequests(targetId, screenshots, snapshots, sources, profile))
    /\ UNCHANGED serviceVars

\* browserTraceStop(baseUrl, { targetId, path, profile })
TraceStopRequests(targetId, out, profile) ==
    <<[kind |-> "stop-trace", targetId |-> TrimOrUndefined(targetId),
       path |-> TrimOrUndefined(out), profile |-> profile]>>

\* `browser trace stop`
TraceStop(targetId, out, profile) ==
    /\ Start([kind |-> "trace stop", targetId |-> targetId, out |-> out, profile |-> profile],
             TraceStopRequests(targetId, out, profile))
    /\ UNCHANGED serviceVars

\* faulty variant: the --clear flag is not passed on
ErrorsRequests_NoClear(targetId, clear, profile) ==
    <<[kind |-> "get-page-errors", targetId |-> TrimOrUndefined(targetId),
       clear |-> FALSE, profile |-> profile]>>

\* faulty variant: the request is sent a second time
ErrorsRequests_Twice(targetId, clear, profile) ==
    <<[kind |-> "get-page-errors", targetId |-> TrimOrUndefined(targetId),
       clear |-> clear, profile |-> profile],
      [kind |-> "get-page-errors", targetId |-> TrimOrUndefined(targetId),
       clear |-> clear, profile |-> profile]>>

\* browserPageErrors(baseUrl, { targetId, clear: Boolean(opts.clear), profile })
ErrorsRequests(targetId, clear, profile) ==
    <<[kind |-> "get-page-errors", targetId |-> TrimOrUndefined(targetId),
       clear |-> clear, profile |-> profile]>>

\* `browser errors [--clear]`
Errors(targetId, clear, profile) ==
    /\ Start([kind |-> "errors", targetId |-> targetId, clear |-> clear, profile |-> profile],
             ErrorsRequests(targetId, clear, profile))
    /\ UNCHANGED serviceVars

\* faulty variant: the name is trimmed before it is sent
CreateProfileRequests_Trimmed(name, color, cdpUrl, driver) ==
    <<[kind |-> "create-profile", name |-> Trim(name), color |-> color, cdpUrl |-> cdpUrl,
       driver |-> IF driver = "extension" THEN "extension" ELSE Unset]>>

\* browserCreateProfile(baseUrl, { name, color, cdpUrl, driver })
CreateProfileRequests(name, color, cdpUrl, driver) ==
    <<[kind |-> "create-profile", name |-> name, color |-> color, cdpUrl |-> cdpUrl,
       driver |-> IF driver = "extension" THEN "extension" ELSE Unset]>>

\* `browser create-profile --name <name>`
CreateProfile(name, color, cdpUrl, driver) ==
    /\ Len(registry) < MaxProfiles
    /\ Start([kind |-> "create-profile", name |-> name, color |-> color,
              cdpUrl |-> cdpUrl, driver |-> driver],
             CreateProfileRequests(name, color, cdpUrl, driver))
    /\ UNCHANGED serviceVars

\* faulty variant: the name is trimmed before it is sent
DeleteProfileRequests_Trimmed(name) ==
    <<[kind |-> "delete-profile", name |-> Trim(name)]>>

\* browserDeleteProfile(baseUrl, opts.name)
DeleteProfileRequests(name) ==
    <<[kind |-> "delete-profile", name |-> name]>>

\* `browser delete-profile --name <name>`
DeleteProfile(name) ==
    /\ Start([kind |-> "delete-profile", name |-> name], DeleteProfileRequests(name))
    /\ UNCHANGED serviceVars

\* faulty variant: the target id is sent as typed
CloseRequests_Untrimmed(targetId, profile) ==
    IF TrimOrUndefined(targetId) # Undefined
    THEN <<[kind |-> "close-tab", targetId |-> targetId, profile |-> profile]>>
    ELSE <<[kind |-> "act", request |-> [kind |-> "close"], profile |-> profile]>>

\* targetId?.trim() ? browserCloseTab(baseUrl, targetId.trim(), { profile })
\*                   : browserAct(baseUrl, { kind: "close" }, { profile })
CloseRequests(targetId, profile) ==
    IF TrimOrUndefined(targetId) # Undefined
    THEN <<[kind |-> "close-tab", targetId |-> Trim(targetId), profile |-> profile]>>
    ELSE <<[kind |-> "act", request |-> [kind |-> "close"], profile |-> profile]>>

\* `browser close [targetId]`
Close(targetId, profile) ==
    /\ Start([kind |-> "close", targetId |-> targetId, profile |-> profile],
             CloseRequests(targetId, profile))
    /\ UNCHANGED serviceVars

\* browserStatus(baseUrl, { profile: parent?.browserProfile })
StatusRequests(profile) ==
    <<[kind |-> "get-status", profile |-> profile]>>

\* `browser status`
Status(profile) ==
    /\ Start([kind |-> "status", profile |-> profile], StatusRequests(profile))
    /\ UNCHANGED serviceVars

\* faulty variant: the status is asked twice
StartRequests_StatusTwice(profile) ==
    <<[kind |-> "start", profile |-> profile],
      [kind |-> "get-status", profile |-> profile],
      [kind |-> "get-status", profile |-> profile]>>

\* faulty variant: the status is asked without the profile
StartRequests_StatusOfDefault(profile) ==
    <<[kind |-> "start", profile |-> profile],
      [kind |-> "get-status", profile |-> Undefined]>>

\* await browserStart(baseUrl, { profile }); await browserStatus(baseUrl, { profile })
StartRequests(profile) ==
    <<[kind |-> "start", profile |-> profile],
      [kind |-> "get-status", profile |-> profile]>>

\* `browser start`; the model stops launching after MaxLaunches browsers
BrowserStart(profile) ==
    /\ launches < MaxLaunches
    /\ Start([kind |-> "start", profile |-> profile], StartRequests(profile))
    /\ UNCHANGED serviceVars

\* faulty variant: the stop is not sent, the status is asked twice
StopRequests_NoStop(profile) ==
    <<[kind |-> "get-status", profile |-> profile],
      [kind |-> "get-status", profile |-> profile]>>

\* await browserStop(baseUrl, { profile }); await browserStatus(baseUrl, { profile })
StopRequests(profile) ==
    <<[kind |-> "stop", profile |-> profile],
      [kind |-> "get-status", profile |-> profile]>>

\* `browser stop`
BrowserStop(profile) ==
    /\ Start([kind |-> "stop", profile |-> profile], StopRequests(profile))
    /\ UNCHANGED serviceVars

\* ------------------------------------------- the service handles a request
Serving(kind) ==
    /\ reachable
    /\ pc = "running"
    /\ pending # <<>>
    /\ Head(pending).kind = kind

\* the service refuses the connection: the request fails with ServiceUnavailable
ConnectionRefused ==
    /\ ~reachable
    /\ pc = "running"
    /\ pending # <<>>
    /\ Reply(Fail("ServiceUnavailable"))
    /\ UNCHANGED serviceVars

\* focus-tab: resolve the reference in the profile's session, focus the target
ServeFocusTab ==
    /\ Serving("focus-tab")
    /\ LET req == Head(pending)
           s == ResolveSession(req.profile)
       IN  IF ~s.ok THEN Reply(s) /\ UNCHANGED serviceVars
           ELSE LET t == resolve(tabs[s.value], byIdOrPrefix(req.targetId))
                IN  IF ~t.ok THEN Reply(t) /\ UNCHANGED serviceVars
                    ELSE /\ focused' = [focused EXCEPT ![s.value] = t.value]
                         /\ Reply(Ok(t.value))
                         /\ UNCHANGED <<registry, tabs, waitVars, debugVars, hostVars, resolving>>

\* a target list without the target id
Remove(sessionTargets, id) == SelectSeq(sessionTargets, LAMBDA x : x # id)

\* the target leaves its session; what the service kept for it goes with it
CloseTarget(p, id) ==
    /\ tabs' = [tabs EXCEPT ![p] = Remove(@, id)]
    /\ focused' = [focused EXCEPT ![p] = IF @ = id THEN Undefined ELSE @]
    /\ traces' = [traces EXCEPT ![<<p, id>>] = <<>>]
    /\ errorBuf' = [errorBuf EXCEPT ![<<p, id>>] = <<>>]

\* tab-action, first step: the live list is fetched and the request's 0-based
\* index (no index: unspecified) is converted to a target id at once
ServeTabActionResolve ==
    /\ Serving("tab-action")
    /\ resolving.state # "resolved"
    /\ LET req == Head(pending)
           s == ResolveSession(req.profile)
       IN  IF ~s.ok THEN Reply(s) /\ UNCHANGED serviceVars
           ELSE LET ref == IF "index" \in DOMAIN req THEN byIndex(req.index + 1)
                           ELSE unspecified
                    t == resolve(tabs[s.value], ref)
                IN  IF ~t.ok THEN Reply(t) /\ UNCHANGED serviceVars
                    ELSE /\ resolving' = [state |-> "resolved", profile |-> s.value,
                                          targetId |-> t.value, fetched |-> tabs[s.value]]
                         /\ UNCHANGED <<sessionVars, waitVars, debugVars, hostVars>>
                         /\ UNCHANGED cliVars

\* tab-action, second step: the action is given the target id
ServeTabActionAct ==
    /\ Serving("tab-action")
    /\ resolving.state = "resolved"
    /\ LET req == Head(pending)
           p == resolving.profile
           id == resolving.targetId
       IN  /\ resolving' = [state |-> "acted", raced |-> tabs[p] # resolving.fetched]
           /\ IF id \notin Range(tabs[p])
              THEN /\ Reply(Fail("TargetNotFound"))
                   /\ UNCHANGED <<sessionVars, waitVars, debugVars, hostVars>>
              ELSE IF req.action = "select"
              THEN /\ focused' = [focused EXCEPT ![p] = id]
                   /\ Reply(Ok(id))
                   /\ UNCHANGED <<registry, tabs, waitVars, debugVars, hostVars>>
              ELSE /\ CloseTarget(p, id)
                   /\ Reply(Ok(id))
                   /\ UNCHANGED <<registry, waitVars, arrived, drained, hostVars>>

\* close-tab: resolve the reference in the profile's session, close the target
ServeCloseTab ==
    /\ Serving("close-tab")
    /\ LET req == Head(pending)
           s == ResolveSession(req.profile)
       IN  IF ~s.ok THEN Reply(s) /\ UNCHANGED serviceVars
           ELSE LET t == resolve(tabs[s.value], byIdOrPrefix(req.targetId))
                IN  IF ~t.ok THEN Reply(t) /\ UNCHANGED serviceVars
                    ELSE /\ CloseTarget(s.value, t.value)
                         /\ Reply(Ok(t.value))
                         /\ UNCHANGED <<registry, waitVars, arrived, drained, hostVars, resolving>>

\* act { kind: "close" }: the service closes the tab it considers current, the
\* focused one, or else the first
ServeActClose ==
    /\ Serving("act")
    /\ Head(pending).request.kind = "close"
    /\ LET req == Head(pending)
           s == ResolveSession(req.profile)
       IN  IF ~s.ok THEN Reply(s) /\ UNCHANGED serviceVars
           ELSE LET t == IF focused[s.value] # Undefined THEN Ok(focused[s.value])
                         ELSE resolve(tabs[s.value], unspecified)
                IN  IF ~t.ok THEN Reply(t) /\ UNCHANGED serviceVars
                    ELSE /\ CloseTarget(s.value, t.value)
                         /\ Reply(Ok(t.value))
                         /\ UNCHANGED <<registry, waitVars, arrived, drained, hostVars, resolving>>

\* the reference of a request with an optional targetId
RefOf(targetId) == IF targetId = Undefined THEN unspecified ELSE byIdOrPrefix(targetId)

\* await-response: resolve the target, then suspend until a matching response
\* completes or the deadline passes
ServeAwaitResponse ==
    /\ Serving("await-response")
    /\ waiter.state # "waiting"
    /\ LET req == Head(pending)
           s == ResolveSession(req.profile)
       IN  IF ~s.ok THEN Reply(s) /\ UNCHANGED serviceVars
           ELSE LET t == resolve(tabs[s.value], RefOf(req.targetId))
                IN  IF ~t.ok THEN Reply(t) /\ UNCHANGED serviceVars
                    ELSE /\ waiter' = [state |-> "waiting",
                                       pattern |-> req.url,
                                       deadline |-> IF req.timeoutMs = NoNumber
                                                    THEN DefaultTimeoutMs
                                                    ELSE Ms(req.timeoutMs),
                                       maxChars |-> IF req.maxChars = NoNumber
                                                    THEN DefaultMaxChars
                                                    ELSE Floor(req.maxChars)]
                         /\ now' = 0
                         /\ seen' = <<>>
                         /\ evaluated' = <<>>
                         /\ UNCHANGED <<sessionVars, debugVars, hostVars, resolving>>
                         /\ UNCHANGED cliVars

\* time passes while a wait is suspended; the timer fires at the deadline
Tick(t) ==
    /\ waiter.state = "waiting"
    /\ now < t
    /\ t <= waiter.deadline
    /\ now' = t
    /\ UNCHANGED <<waiter, seen, sessionVars, debugVars, evaluated, hostVars, resolving>>
    /\ UNCHANGED cliVars

\* time passes
AdvanceTime == \E t \in TimePoints : Tick(t)

\* the deadline elapsed: the wait fails with ResponseTimeout
WaitTimeout ==
    /\ Serving("await-response")
    /\ waiter.state = "waiting"
    /\ now >= waiter.deadline
    /\ waiter' = [waiter EXCEPT !.state = "timedout"]
    /\ Reply(Fail("ResponseTimeout"))
    /\ UNCHANGED <<now, seen, sessionVars, debugVars, evaluated, hostVars, resolving>>

\* a response of the page completes; the first one that satisfies the pattern
\* of a suspended wait before its deadline ends the wait
ResponseCompletes(url, body) ==
    /\ Len(seen) < MaxResponses
    /\ seen' = Append(seen, [url |-> url, body |-> body])
    /\ IF waiter.state = "waiting" /\ now < waiter.deadline
       THEN /\ evaluated' = MatchModes(waiter.pattern, url).modes
            /\ IF Matches(waiter.pattern, url)
               THEN /\ waiter' = [waiter EXCEPT !.state = "matched"]
                    /\ Reply(Ok([url |-> url, id |-> Len(seen) + 1,
                                 body |-> Take(body, waiter.maxChars),
                                 truncated |-> Length(body) > waiter.maxChars]))
               ELSE /\ UNCHANGED waiter
                    /\ UNCHANGED cliVars
       ELSE /\ UNCHANGED <<waiter, evaluated>>
            /\ UNCHANGED cliVars
    /\ UNCHANGED <<now, sessionVars, debugVars, hostVars, resolving>>

\* a profile list without the profiles named n
RECURSIVE Without(_, _)
Without(profiles, n) ==
    IF profiles = <<>> THEN <<>>
    ELSE IF Head(profiles).name = n THEN Without(Tail(profiles), n)
    ELSE <<Head(profiles)>> \o Without(Tail(profiles), n)

\* Profile Registry list()
list == registry

\* create-profile: InvalidName, DuplicateName, or the profile is added
ServeCreateProfile ==
    /\ Serving("create-profile")
    /\ LET req == Head(pending)
       IN  IF ~ValidName(req.name) THEN Reply(Fail("InvalidName")) /\ UNCHANGED serviceVars
           ELSE IF req.name \in Names(registry)
           THEN Reply(Fail("DuplicateName")) /\ UNCHANGED serviceVars
           ELSE /\ registry' = Append(registry,
                                      Profile(req.name, req.color, req.cdpUrl, req.driver))
                /\ Reply(Ok([profile |-> req.name, isRemote |-> req.cdpUrl # Unset,
                             cdpUrl |-> req.cdpUrl, color |-> req.color]))
                /\ UNCHANGED <<tabs, focused, waitVars, debugVars, hostVars, resolving>>

\* delete-profile: never an error; deleted tells whether there was a profile
ServeDeleteProfile ==
    /\ Serving("delete-profile")
    /\ LET req == Head(pending)
       IN  IF req.name \notin Names(registry)
           THEN Reply(Ok([profile |-> req.name, deleted |-> FALSE])) /\ UNCHANGED serviceVars
           ELSE /\ registry' = Without(registry, req.name)
                /\ tabs' = [tabs EXCEPT ![req.name] = <<>>]
                /\ focused' = [focused EXCEPT ![req.name] = Undefined]
                /\ traces' = [t \in DOMAIN traces |->
                                 IF t[1] = req.name THEN <<>> ELSE traces[t]]
                /\ errorBuf' = [t \in DOMAIN errorBuf |->
                                   IF t[1] = req.name THEN <<>> ELSE errorBuf[t]]
                /\ Reply(Ok([profile |-> req.name, deleted |-> TRUE]))
                /\ UNCHANGED <<waitVars, arrived, drained, hostVars, resolving>>

\* where a trace is written when no path is asked for
DefaultTracePath == <<"t", ".", "z", "i", "p">>

\* start-trace: AlreadyTracing when the target has an active trace
ServeTraceStart ==
    /\ Serving("start-trace")
    /\ LET req == Head(pending)
           s == ResolveSession(req.profile)
       IN  IF ~s.ok THEN Reply(s) /\ UNCHANGED serviceVars
           ELSE LET t == resolve(tabs[s.value], RefOf(req.targetId))
                IN  IF ~t.ok THEN Reply(t) /\ UNCHANGED serviceVars
                    ELSE IF traces[<<s.value, t.value>>] # <<>>
                    THEN Reply(Fail("AlreadyTracing")) /\ UNCHANGED serviceVars
                    ELSE /\ traces' = [traces EXCEPT ![<<s.value, t.value>>] =
                                          Append(@, [screenshots |-> req.screenshots,
                                                     snapshots |-> req.snapshots,
                                                     sources |-> req.sources])]
                         /\ Reply(Ok([ok |-> TRUE]))
                         /\ UNCHANGED <<sessionVars, waitVars, errorBuf, arrived, drained, hostVars, resolving>>

\* stop-trace: NotTracing when the target has no active trace
ServeTraceStop ==
    /\ Serving("stop-trace")
    /\ LET req == Head(pending)
           s == ResolveSession(req.profile)
       IN  IF ~s.ok THEN Reply(s) /\ UNCHANGED serviceVars
           ELSE LET t == resolve(tabs[s.value], RefOf(req.targetId))
                IN  IF ~t.ok THEN Reply(t) /\ UNCHANGED serviceVars
                    ELSE IF traces[<<s.value, t.value>>] = <<>>
                    THEN Reply(Fail("NotTracing")) /\ UNCHANGED serviceVars
                    ELSE /\ traces' = [traces EXCEPT ![<<s.value, t.value>>] = Tail(@)]
                         /\ Reply(Ok([path |-> IF req.path = Undefined
                                                THEN DefaultTracePath ELSE req.path]))
                         /\ UNCHANGED <<sessionVars, waitVars, errorBuf, arrived, drained, hostVars, resolving>>

\* get-page-errors: the buffer of the target; with clear it is emptied in the
\* same step.  drained records what a command run with --clear goes on to print.
ServePageErrors ==
    /\ Serving("get-page-errors")
    /\ LET req == Head(pending)
           s == ResolveSession(req.profile)
       IN  IF ~s.ok THEN Reply(s) /\ UNCHANGED serviceVars
           ELSE LET t == resolve(tabs[s.value], RefOf(req.targetId))
                IN  IF ~t.ok THEN Reply(t) /\ UNCHANGED serviceVars
                    ELSE LET r == Ok([errors |-> errorBuf[<<s.value, t.value>>]])
                         IN  /\ errorBuf' = IF req.clear
                                            THEN [errorBuf EXCEPT ![<<s.value, t.value>>] = <<>>]
                                            ELSE errorBuf
                             /\ Reply(r)
                             /\ drained' = IF cmd.clear /\ Len(pending) = 1
                                           THEN drained \o resp'[1].value.errors
                                           ELSE drained
                             /\ UNCHANGED <<sessionVars, waitVars, traces, arrived, hostVars, resolving>>

\* whether the profile's browser is up: the handle says so and its process lives
IsRunning(p) == session[p].running /\ instances[p] > 0

\* start: a no-op for a running session, a launch otherwise
ServeStart ==
    /\ Serving("start")
    /\ LET s == ResolveSession(Head(pending).profile)
       IN  IF ~s.ok THEN Reply(s) /\ UNCHANGED serviceVars
           ELSE IF IsRunning(s.value) THEN
                Reply(Ok([launched |-> FALSE])) /\ UNCHANGED serviceVars
           ELSE /\ launches' = launches + 1
                /\ instances' = [instances EXCEPT ![s.value] = @ + 1]
                /\ session' = [session EXCEPT ![s.value] =
                                   [running |-> TRUE, endpoint |-> launches + 1]]
                /\ Reply(Ok([launched |-> TRUE]))
                /\ UNCHANGED <<sessionVars, waitVars, debugVars, reachable, resolving>>

\* stop, best-effort: the handle is dropped whether or not the process is there
ServeStop ==
    /\ Serving("stop")
    /\ LET s == ResolveSession(Head(pending).profile)
       IN  IF ~s.ok THEN Reply(s) /\ UNCHANGED serviceVars
           ELSE /\ session' = [session EXCEPT ![s.value] = NoSession]
                /\ instances' = [instances EXCEPT ![s.value] = 0]
                /\ Reply(Ok([hadHandle |-> session[s.value].running,
                             stopped |-> instances[s.value] > 0]))
                /\ UNCHANGED <<sessionVars, waitVars, debugVars, launches, reachable, resolving>>

\* status: always answers for a profile of the registry
ServeStatus ==
    /\ Serving("get-status")
    /\ LET s == ResolveSession(Head(pending).profile)
       IN  IF ~s.ok THEN Reply(s)
           ELSE Reply(Ok([profile |-> s.value, running |-> IsRunning(s.value),
                          endpoint |-> IF IsRunning(s.value) THEN session[s.value].endpoint
                                       ELSE 0]))
    /\ UNCHANGED serviceVars

\* ------------------------------------------------ the browser and its user
\* the operator interrupts a responsebody command: the process ends at once
\* and the service abandons the wait it held for it
Interrupt ==
    /\ pc = "running"
    /\ cmd.kind = "responsebody"
    /\ pc' = "done"
    /\ pending' = <<>>
    /\ exit' = <<130>>
    /\ waiter' = IF waiter.state = "waiting" THEN [waiter EXCEPT !.state = "abandoned"]
                 ELSE waiter
    /\ UNCHANGED <<cmd, resp, stdout, stderr>>
    /\ UNCHANGED <<sessionVars, debugVars, hostVars, resolving, now, seen, evaluated>>

\* the control service goes away; a request it was working on is lost and the
\* command's connection breaks
ServiceGoesDown ==
    /\ reachable
    /\ reachable' = FALSE
    /\ waiter' = IF waiter.state = "waiting" THEN [state |-> "none"] ELSE waiter
    /\ resolving' = IF resolving.state = "resolved" THEN [state |-> "none"] ELSE resolving
    /\ IF pc = "running" /\ (waiter.state = "waiting" \/ resolving.state = "resolved")
       THEN Reply(Fail("ServiceUnavailable"))
       ELSE UNCHANGED cliVars
    /\ UNCHANGED <<sessionVars, debugVars, now, seen, evaluated, session, instances, launches>>

\* the control service is back
ServiceComesUp ==
    /\ ~reachable
    /\ reachable' = TRUE
    /\ UNCHANGED <<sessionVars, waitVars, debugVars, session, instances, launches, resolving>>
    /\ UNCHANGED cliVars

\* the browser of a profile exits on its own (the user quits it, or it crashes);
\* the service still holds the handle
BrowserExits(p) ==
    /\ instances[p] > 0
    /\ instances' = [instances EXCEPT ![p] = 0]
    /\ UNCHANGED <<sessionVars, waitVars, debugVars, session, launches, reachable, resolving>>
    /\ UNCHANGED cliVars

\* a page of an open tab raises an error
PageError(p, id) ==
    /\ id \in Range(tabs[p])
    /\ arrived < MaxErrors
    /\ arrived' = arrived + 1
    /\ errorBuf' = [errorBuf EXCEPT ![<<p, id>>] = Append(@, arrived + 1)]
    /\ UNCHANGED <<sessionVars, waitVars, traces, drained, hostVars, resolving>>
    /\ UNCHANGED cliVars

\* a tab appears in a session (user interaction, or a page opening a window)
TabOpens(p, id) ==
    /\ p \in Names(registry)
    /\ Len(tabs[p]) < MaxTabs
    /\ id \notin Range(tabs[p])
    /\ tabs' = [tabs EXCEPT ![p] = Append(@, id)]
    /\ UNCHANGED <<registry, focused, waitVars, debugVars, hostVars, resolving>>
    /\ UNCHANGED cliVars

\* the user closes the k-th tab of a session; what the service kept for the
\* target goes with it
TabCloses(p, k) ==
    /\ k \in 1 .. Len(tabs[p])
    /\ tabs' = [tabs EXCEPT ![p] = SubSeq(@, 1, k - 1) \o SubSeq(@, k + 1, Len(@))]
    /\ focused' = [focused EXCEPT ![p] = IF @ = tabs[p][k] THEN Undefined ELSE @]
    /\ traces' = [traces EXCEPT ![<<p, tabs[p][k]>>] = <<>>]
    /\ errorBuf' = [errorBuf EXCEPT ![<<p, tabs[p][k]>>] = <<>>]
    /\ UNCHANGED <<registry, waitVars, arrived, drained, hostVars, resolving>>
    /\ UNCHANGED cliVars

\* ------------------------------------------- target resolution (C1, C2)
NextResolve ==
    \/ \E s \in RefInputs, p \in ProfileInputs : Focus(s, p)
    \/ ServeFocusTab
    \/ \E p \in Profiles, id \in TargetIds : TabOpens(p, id)
    \/ \E p \in Profiles, k \in 1 .. MaxTabs : TabCloses(p, k)

SpecResolve == Init /\ [][NextResolve]_vars

\* ------------------------------------------------------------- traces (C6)
NextTrace ==
    \/ \E id \in TargetIdInputs, shots \in BOOLEAN : TraceStart(id, shots, TRUE, FALSE, Undefined)
    \/ \E id \in TargetIdInputs, out \in { Undefined, <<"o">> } : TraceStop(id, out, Undefined)
    \/ ServeTraceStart
    \/ ServeTraceStop
    \/ \E id \in TargetIds : TabOpens(DefaultProfile, id)
    \/ \E k \in 1 .. MaxTabs : TabCloses(DefaultProfile, k)

SpecTrace == Init /\ [][NextTrace]_vars

\* ------------------------------------------------------ page errors (C7, C8)
NextErrors ==
    \/ \E id \in TargetIdInputs, clear \in BOOLEAN : Errors(id, clear, Undefined)
    \/ ServePageErrors
    \/ \E id \in TargetIds : PageError(DefaultProfile, id)
    \/ \E id \in { <<"A">>, <<"A", "1">> } : TabOpens(DefaultProfile, id)

SpecErrors == Init /\ [][NextErrors]_vars

\* ------------------------------------------------ the profile registry (C9, C10)
NextProfiles ==
    \/ \E n \in NameInputs, url \in { Unset, "http://remote" }, d \in { Unset, "extension", "clawd" } :
          CreateProfile(n, Unset, url, d)
    \/ \E n \in NameInputs : DeleteProfile(n)
    \/ ServeCreateProfile
    \/ ServeDeleteProfile

SpecProfiles == Init /\ [][NextProfiles]_vars

\* ------------------------------------------------ sessions (C11, C12)
NextSession ==
    \/ \E p \in ProfileInputs : BrowserStart(p)
    \/ \E p \in ProfileInputs : BrowserStop(p)
    \/ \E p \in ProfileInputs : Status(p)
    \/ ServeStart
    \/ ServeStop
    \/ ServeStatus
    \/ \E p \in Profiles : BrowserExits(p)

SpecSession == Init /\ [][NextSession]_vars

\* ------------------------------------------------ tabs by index (C3, C14, C15)
NextTabs ==
    \/ \E i \in IndexInputs, p \in ProfileInputs : TabSelect(i, p)
    \/ \E i \in IndexInputs \cup { NoNumber }, p \in ProfileInputs : TabClose(i, p)
    \/ ServeTabActionResolve
    \/ ServeTabActionAct
    \/ \E id \in TargetIds : TabOpens(DefaultProfile, id)
    \/ \E k \in 1 .. MaxTabs : TabCloses(DefaultProfile, k)

SpecTabs == Init /\ [][NextTabs]_vars

\* ------------------------------------------------ close (C20)
NextClose ==
    \/ \E id \in TargetIdInputs \cup { <<" ", "A", "1">> }, p \in ProfileInputs : Close(id, p)
    \/ \E p \in ProfileInputs : Focus(<<"A">>, p)
    \/ ServeCloseTab
    \/ ServeActClose
    \/ ServeFocusTab
    \/ \E id \in TargetIds : TabOpens(DefaultProfile, id)
    \/ \E k \in 1 .. MaxTabs : TabCloses(DefaultProfile, k)

SpecClose == Init /\ [][NextClose]_vars

\* ------------------------------------------------ the service is unreachable (C18)
\* a request of the running command reaches the service, or is refused
Deliver ==
    \/ ConnectionRefused
    \/ ServeStatus
    \/ ServeStart
    \/ ServeStop
    \/ ServeFocusTab
    \/ ServeCloseTab
    \/ ServeActClose
    \/ ServeTabActionResolve
    \/ ServeTabActionAct
    \/ ServeAwaitResponse
    \/ ServePageErrors
    \/ ServeTraceStart
    \/ ServeTraceStop
    \/ ServeCreateProfile
    \/ ServeDeleteProfile

NextDown ==
    \/ Status(Undefined)
    \/ BrowserStart(Undefined)
    \/ BrowserStop(Undefined)
    \/ Focus(<<"A">>, Undefined)
    \/ \E id \in { Undefined, <<"A">> } : Close(id, Undefined)
    \/ TabSelect(Num(2), Undefined)
    \/ TabClose(NoNumber, Undefined)
    \/ ResponseBody(<<"/", "c">>, Undefined, Num(100), NoNumber, Undefined)
    \/ Errors(Undefined, FALSE, Undefined)
    \/ TraceStart(Undefined, TRUE, TRUE, FALSE, Undefined)
    \/ TraceStop(Undefined, Undefined, Undefined)
    \/ CreateProfile(<<"a">>, Unset, Unset, Unset)
    \/ DeleteProfile(<<"a">>)
    \/ Deliver
    \/ AdvanceTime
    \/ WaitTimeout
    \/ ResponseCompletes(<<"a", "/", "c">>, <<[c |-> "x", n |-> 100]>>)
    \/ TabOpens(DefaultProfile, <<"A">>)
    \/ ServiceGoesDown
    \/ ServiceComesUp

SpecDown == Init /\ [][NextDown]_vars

\* requests are delivered or refused, time passes and timers fire
SpecDownFair ==
    /\ SpecDown
    /\ WF_vars(Deliver)
    /\ WF_vars(AdvanceTime)
    /\ WF_vars(WaitTimeout)

\* ------------------------------------------------ an interrupted wait (C19)
NextCancel ==
    \/ \E id \in TargetIdInputs, t \in { NoNumber, Num(100) } :
          ResponseBody(<<"/", "c">>, id, t, NoNumber, Undefined)
    \/ Focus(<<"A">>, Undefined)
    \/ ServeAwaitResponse
    \/ ServeFocusTab
    \/ AdvanceTime
    \/ WaitTimeout
    \/ \E u \in UrlInputs : ResponseCompletes(u, <<[c |-> "x", n |-> 100]>>)
    \/ Interrupt
    \/ \E id \in { <<"A">>, <<"A", "1">> } : TabOpens(DefaultProfile, id)
    \/ PageError(DefaultProfile, <<"A">>)

SpecCancel == Init /\ [][NextCancel]_vars

\* ------------------------------------------------ start and stop may fail (C23)
NextStartStop ==
    \/ \E p \in ProfileInputs \cup { <<"a">> } : BrowserStart(p)
    \/ \E p \in ProfileInputs \cup { <<"a">> } : BrowserStop(p)
    \/ ServeStart
    \/ ServeStop
    \/ ServeStatus
    \/ ConnectionRefused
    \/ ServiceGoesDown
    \/ ServiceComesUp
    \/ \E p \in Profiles : BrowserExits(p)

SpecStartStop == Init /\ [][NextStartStop]_vars

\* ------------------------------------------------ several profiles (C13)
NextScope ==
    \/ \E p \in ProfileInputs : BrowserStart(p)
    \/ \E p \in ProfileInputs : BrowserStop(p)
    \/ \E id \in { Undefined, <<"A">> }, p \in ProfileInputs : TraceStart(id, TRUE, TRUE, FALSE, p)
    \/ \E p \in ProfileInputs : Focus(<<"A">>, p)
    \/ ServeStart
    \/ ServeStop
    \/ ServeStatus
    \/ ServeTraceStart
    \/ ServeFocusTab
    \/ \E id \in { <<"A">>, <<"A", "1">> } : TabOpens(DefaultProfile, id)
    \/ \E id \in { <<"A">>, <<"A", "2">> } : TabOpens(Work, id)

SpecScope == Init /\ [][NextScope]_vars

\* ------------------------------------------------ the response wait (C4, C5)
NextWait ==
    \/ \E u \in PatternInputs, id \in TargetIdInputs, t \in TimeoutInputs :
          ResponseBody(u, id, t, NoNumber, Undefined)
    \/ ServeAwaitResponse
    \/ AdvanceTime
    \/ WaitTimeout
    \/ \E u \in UrlInputs : ResponseCompletes(u, <<[c |-> "x", n |-> 100]>>)
    \/ TabOpens(DefaultProfile, <<"A">>)

SpecWait == Init /\ [][NextWait]_vars

\* ------------------------------------------------ response bodies (C16)
NextBody ==
    \/ \E m \in MaxCharsInputs : ResponseBody(<<"/", "c">>, Undefined, NoNumber, m, Undefined)
    \/ ServeAwaitResponse
    \/ AdvanceTime
    \/ WaitTimeout
    \/ \E u \in UrlInputs, b \in BodyInputs : ResponseCompletes(u, b)
    \/ TabOpens(DefaultProfile, <<"A">>)

SpecBody == Init /\ [][NextBody]_vars

\* requests reach the service, time passes and timers fire
SpecWaitFair ==
    /\ SpecWait
    /\ WF_vars(ServeAwaitResponse)
    /\ WF_vars(AdvanceTime)
    /\ WF_vars(WaitTimeout)

\* the profile whose session the running command addresses
CmdProfile == IF cmd.profile = Undefined THEN DefaultProfile ELSE cmd.profile

\* the positions of a target list whose id equals s, and those whose id starts with s
ExactMatches(live, s) == { k \in 1 .. Len(live) : live[k] = s }
PrefixMatches(live, s) ==
    { k \in 1 .. Len(live) : Len(s) <= Len(live[k]) /\ \A j \in 1 .. Len(s) : live[k][j] = s[j] }

\* the step in which the request of the running command `kind` returns
Returns(kind) == pc = "running" /\ cmd.kind = kind /\ pc' = "done"

\* C1: a reference that equals no target id and is a prefix of more than one
\* fails with AmbiguousTarget; no tab is focused, the command prints nothing
\* and exits with status 1.
C1_AmbiguousPrefixFails ==
    [][ ( /\ Returns("focus")
          /\ ExactMatches(tabs[CmdProfile], cmd.targetId) = {}
          /\ Cardinality(PrefixMatches(tabs[CmdProfile], cmd.targetId)) > 1 )
        => ( /\ stderr' = "AmbiguousTarget"
             /\ exit' = <<1>>
             /\ stdout' = <<>>
             /\ focused' = focused
             /\ tabs' = tabs ) ]_vars

C1_Witness ==
    /\ pc = "done" /\ cmd.kind = "focus"
    /\ stderr = "AmbiguousTarget"
    /\ ExactMatches(tabs[CmdProfile], cmd.targetId) = {}
    /\ Cardinality(PrefixMatches(tabs[CmdProfile], cmd.targetId)) > 1

\* C2: an exact id wins even when it is a prefix of other ids; otherwise a
\* unique prefix match is taken; a reference that matches nothing fails with
\* TargetNotFound.
C2_ExactThenUniquePrefix ==
    [][ Returns("focus") =>
        LET live == tabs[CmdProfile]
            exact == ExactMatches(live, cmd.targetId)
            prefix == PrefixMatches(live, cmd.targetId)
        IN  /\ exact # {} =>
                /\ exit' = <<0>>
                /\ focused'[CmdProfile] = cmd.targetId
                /\ resp'[1].value = cmd.targetId
            /\ (exact = {} /\ Cardinality(prefix) = 1) =>
                /\ exit' = <<0>>
                /\ \A k \in prefix : focused'[CmdProfile] = live[k] /\ resp'[1].value = live[k]
            /\ prefix = {} =>
                /\ stderr' = "TargetNotFound"
                /\ exit' = <<1>>
                /\ focused' = focused ]_vars

C2_Witness ==
    /\ pc = "done" /\ cmd.kind = "focus" /\ exit = <<0>>
    /\ focused[CmdProfile] = cmd.targetId
    /\ ExactMatches(tabs[CmdProfile], cmd.targetId) # {}
    /\ Cardinality(PrefixMatches(tabs[CmdProfile], cmd.targetId)) > 1

\* the step in which the service resolves the target of a tab action
Resolves ==
    /\ Serving("tab-action")
    /\ resolving.state # "resolved"
    /\ (pc' = "done" \/ resolving'.state = "resolved")

\* the two ways an index outside the live is reported: by the command itself
\* (below 1) and by the service (beyond the end of the live)
IndexErrors == { "index must be a positive number", "IndexOutOfRange" }

IsInteger(x) == x.k = "num" /\ x.h % 2 = 0

TypedTimeoutMs == IF cmd.timeoutMs.k = "num" THEN cmd.timeoutMs.h \div 2 ELSE DefaultTimeoutMs

\* a responsebody command whose wait is suspended in the service
Waiting == pc = "running" /\ cmd.kind = "responsebody" /\ waiter.state = "waiting"

\* C4: a suspended wait ends in exactly one of two ways: with a response whose
\* url satisfies the pattern, completed before the deadline, or with
\* ResponseTimeout once the deadline (--timeout-ms, default 20000) has elapsed
\* and not before; when no matching response ever completes it still ends.
C4_WaitEndsOneOfTwoWays ==
    /\ [][ (Waiting /\ pc' = "done") =>
           \/ /\ exit' = <<0>>
              /\ stderr' = ""
              /\ Len(resp') = 1
              /\ Matches(cmd.url, resp'[1].value.url)
              /\ now < TypedTimeoutMs
           \/ /\ exit' = <<1>>
              /\ stderr' = "ResponseTimeout"
              /\ stdout' = <<>>
              /\ resp' = <<>>
              /\ now >= TypedTimeoutMs ]_vars
    /\ [][ (Waiting /\ pc' = "done" /\ \A k \in 1 .. Len(seen') : ~Matches(cmd.url, seen'[k].url))
           => stderr' = "ResponseTimeout" ]_vars
    /\ ((pc = "running" /\ cmd.kind = "responsebody") ~> (pc = "done"))

C4_Witness ==
    /\ pc = "done" /\ cmd.kind = "responsebody"
    /\ cmd.url = <<"*", "*", "/", "b">> /\ cmd.timeoutMs = Num(100)
    /\ waiter.state = "timedout"
    /\ stderr = "ResponseTimeout" /\ exit = <<1>>
    /\ now = 50
    /\ seen # <<>>
    /\ \A k \in 1 .. Len(seen) : ~Matches(cmd.url, seen[k].url)

\* C5: the response returned is the first one completed during the wait that
\* satisfies the pattern; it is returned once, and responses that complete
\* after it change neither the result nor the output.
C5_FirstToCompleteWins ==
    /\ [][ (Waiting /\ pc' = "done" /\ exit' = <<0>>) =>
           /\ Len(resp') = 1
           /\ Len(stdout') = 1
           /\ stdout'[1].response = resp'[1].value
           /\ LET r == resp'[1].value
              IN  /\ r.id \in 1 .. Len(seen')
                  /\ seen'[r.id].url = r.url
                  /\ Matches(cmd.url, r.url)
                  /\ \A k \in 1 .. r.id - 1 : ~Matches(cmd.url, seen'[k].url) ]_vars
    /\ [][ (pc = "done" /\ cmd.kind = "responsebody" /\ pc' = "done")
           => (resp' = resp /\ stdout' = stdout) ]_vars

C5_Witness ==
    /\ pc = "done" /\ cmd.kind = "responsebody" /\ exit = <<0>>
    /\ resp[1].value.id > 1
    /\ \E k \in 1 .. Len(seen) : k > resp[1].value.id /\ Matches(cmd.url, seen[k].url)

\* the target the running command addresses, from what the operator typed
AddressedTarget == resolve(tabs[CmdProfile], RefOf(TrimOrUndefined(cmd.targetId)))

\* C6: at most one trace is active per target; trace start on a target with an
\* active trace fails with AlreadyTracing and changes no trace; trace stop on
\* a target without one fails with NotTracing; a successful trace stop leaves
\* the target without an active trace.
C6_OneTracePerTarget ==
    /\ [] (\A t \in DOMAIN traces : Len(traces[t]) <= 1)
    /\ [][ (Returns("trace start") /\ AddressedTarget.ok) =>
           LET t == <<CmdProfile, AddressedTarget.value>>
           IN  /\ traces[t] # <<>> =>
                   /\ stderr' = "AlreadyTracing"
                   /\ exit' = <<1>>
                   /\ stdout' = <<>>
                   /\ traces' = traces
               /\ traces[t] = <<>> =>
                   /\ exit' = <<0>>
                   /\ Len(traces'[t]) = 1
                   /\ \A u \in DOMAIN traces : u # t => traces'[u] = traces[u] ]_vars
    /\ [][ (Returns("trace stop") /\ AddressedTarget.ok) =>
           LET t == <<CmdProfile, AddressedTarget.value>>
           IN  /\ traces[t] = <<>> =>
                   /\ stderr' = "NotTracing"
                   /\ exit' = <<1>>
                   /\ stdout' = <<>>
                   /\ traces' = traces
               /\ traces[t] # <<>> =>
                   /\ exit' = <<0>>
                   /\ traces'[t] = <<>>
                   /\ \A u \in DOMAIN traces : u # t => traces'[u] = traces[u] ]_vars

C6_Witness ==
    /\ pc = "done" /\ cmd.kind = "trace start"
    /\ stderr = "AlreadyTracing" /\ exit = <<1>>
    /\ AddressedTarget.ok
    /\ Len(traces[<<CmdProfile, AddressedTarget.value>>]) = 1
    /\ traces[<<CmdProfile, AddressedTarget.value>>][1].screenshots # cmd.screenshots

\* C7: errors --clear prints every error accumulated for the target and leaves
\* its buffer empty; without --clear the buffer is unchanged.  A buffer changes
\* only when an error arrives or a --clear read returns, so a second --clear
\* call with no arrival in between finds it empty.
C7_ClearReturnsAllAndEmpties ==
    /\ [][ (Returns("errors") /\ AddressedTarget.ok) =>
           LET t == <<CmdProfile, AddressedTarget.value>>
           IN  /\ exit' = <<0>>
               /\ resp'[1].value.errors = errorBuf[t]
               /\ stdout' = IF errorBuf[t] = <<>> THEN <<[text |-> "No page errors."]>>
                            ELSE [k \in 1 .. Len(errorBuf[t]) |->
                                     [text |-> "error", error |-> errorBuf[t][k]]]
               /\ cmd.clear => errorBuf'[t] = <<>>
               /\ ~cmd.clear => errorBuf'[t] = errorBuf[t]
               /\ \A u \in DOMAIN errorBuf : u # t => errorBuf'[u] = errorBuf[u] ]_vars
    /\ [][ errorBuf' # errorBuf =>
           (arrived' = arrived + 1 \/ (Returns("errors") /\ cmd.clear)) ]_vars

C7_Witness ==
    /\ pc = "done" /\ cmd.kind = "errors" /\ cmd.clear /\ exit = <<0>>
    /\ stdout = <<[text |-> "No page errors."]>>
    /\ drained # <<>>
    /\ Len(drained) = arrived

\* how often error e occurs in the buffers, and in the results a running
\* --clear command has received but not yet printed
CountBuffered(e) ==
    Cardinality({ x \in (DOMAIN errorBuf) \X (1 .. MaxErrors) :
                    x[2] <= Len(errorBuf[x[1]]) /\ errorBuf[x[1]][x[2]] = e })
CountDrained(e) == Cardinality({ k \in 1 .. Len(drained) : drained[k] = e })
CountInFlight(e) ==
    IF pc = "running" /\ cmd.kind = "errors" /\ cmd.clear
    THEN Cardinality({ x \in (1 .. Len(resp)) \X (1 .. MaxErrors) :
                         x[2] <= Len(resp[x[1]].value.errors)
                         /\ resp[x[1]].value.errors[x[2]] = e })
    ELSE 0

\* C8: every page error raised so far is either still buffered or was printed
\* by exactly one errors --clear command; none is lost and none is printed twice.
C8_NoErrorLostOrRepeated ==
    \A e \in 1 .. arrived : CountBuffered(e) + CountDrained(e) + CountInFlight(e) = 1

C8_Witness ==
    /\ pc = "done" /\ cmd.kind = "errors" /\ cmd.clear /\ exit = <<0>>
    /\ AddressedTarget.ok
    /\ drained # <<>>
    /\ errorBuf[<<CmdProfile, AddressedTarget.value>>] # <<>>
    /\ \A k \in 1 .. Len(drained) :
           drained[k] < errorBuf[<<CmdProfile, AddressedTarget.value>>][1]

\* how many profiles of list() are named n
CountNamed(n) == Cardinality({ k \in 1 .. Len(list) : list[k].name = n })

\* C9: profile names stay unique; creating a valid name that is not in the
\* registry adds exactly one profile of that name; creating a name that is
\* present fails with DuplicateName and creating an invalid name fails with
\* InvalidName, both leaving the registry as it was.
C9_UniqueProfileNames ==
    /\ [] (\A n \in Names(list) : CountNamed(n) = 1)
    /\ [][ Returns("create-profile") =>
           LET n == cmd.name
           IN  /\ (ValidName(n) /\ n \notin Names(registry)) =>
                   /\ exit' = <<0>>
                   /\ SubSeq(registry', 1, Len(registry)) = registry
                   /\ Len(registry') = Len(registry) + 1
                   /\ registry'[Len(registry')].name = n
               /\ n \in Names(registry) =>
                   /\ stderr' = "DuplicateName"
                   /\ exit' = <<1>>
                   /\ stdout' = <<>>
                   /\ registry' = registry
               /\ ~ValidName(n) =>
                   /\ stderr' = "InvalidName"
                   /\ exit' = <<1>>
                   /\ stdout' = <<>>
                   /\ registry' = registry ]_vars

C9_Witness ==
    /\ pc = "done" /\ cmd.kind = "create-profile"
    /\ stderr = "DuplicateName" /\ exit = <<1>>
    /\ cmd.name = <<"a", "-", "1">>
    /\ CountNamed(cmd.name) = 1

\* C10: delete-profile never reports an error; for a name that is not in the
\* registry it reports deleted=false and changes nothing; after any delete
\* the name is not in the registry, so a second delete reports deleted=false.
C10_DeleteIdempotent ==
    [][ Returns("delete-profile") =>
        /\ exit' = <<0>>
        /\ stderr' = ""
        /\ resp'[1].value.profile = cmd.name
        /\ cmd.name \notin Names(registry) =>
            /\ resp'[1].value.deleted = FALSE
            /\ stdout'[1].note = "no user data found"
            /\ registry' = registry
        /\ cmd.name \notin Names(registry') ]_vars

C10_Witness ==
    /\ pc = "done" /\ cmd.kind = "delete-profile" /\ exit = <<0>>
    /\ cmd.name = Work
    /\ resp[1].value.deleted = FALSE
    /\ Work \notin Names(registry)

\* C11, as claimed: a start of a running profile changes nothing in the session
\* state, and the status printed after it says running: true for that profile.
C11_StartThenStatusRunning ==
    [][/\ (cmd.kind = "start" /\ Serving("start") /\ IsRunning(CmdProfile)
              /\ pending' # pending)
           => UNCHANGED <<session, instances, launches>>
       /\ (Returns("start") /\ exit' = <<0>> /\ ~resp[1].value.launched)
           => /\ stdout'[1].name = CmdProfile
              /\ stdout'[1].running = TRUE]_vars

\* C11, amended: a start of a running profile changes nothing in the session
\* state (no second instance, same endpoint), and the status printed after it
\* is that of the same profile and says running: true exactly when the browser
\* has not exited between the start request and the status request.
C11_StartIdempotent ==
    [][/\ (cmd.kind = "start" /\ Serving("start") /\ IsRunning(CmdProfile)
              /\ pending' # pending)
           => UNCHANGED <<session, instances, launches>>
       /\ (Returns("start") /\ exit' = <<0>> /\ ~resp[1].value.launched)
           => /\ stdout'[1].name = CmdProfile
              /\ stdout'[1].running = (instances[CmdProfile] > 0)
              /\ instances[CmdProfile] <= 1]_vars

\* a start of the running profile w1 has ended and printed running: true
C11_Witness ==
    /\ pc = "done" /\ cmd.kind = "start" /\ cmd.profile = Work /\ exit = <<0>>
    /\ ~resp[1].value.launched
    /\ stdout[1].running /\ stdout[1].name = Work
    /\ launches = 1
\* C12: whatever the state of the profile (running, not running, process
\* already gone), a stop command ends with exit status 0, prints nothing on
\* stderr and prints the status of that profile with running: false.
C12_StopNeverFails ==
    [][Returns("stop")
       => /\ exit' = <<0>>
          /\ stderr' = ""
          /\ stdout'[1].name = CmdProfile
          /\ stdout'[1].running = FALSE
          /\ ~IsRunning(CmdProfile)']_vars

\* a stop has succeeded for a profile whose process was already gone
C12_Witness ==
    /\ pc = "done" /\ cmd.kind = "stop" /\ exit = <<0>>
    /\ resp[1].value.hadHandle /\ ~resp[1].value.stopped
    /\ ~stdout[1].running
\* what the service holds for profile q is the same after the step
Untouched(q) ==
    /\ tabs'[q] = tabs[q]
    /\ focused'[q] = focused[q]
    /\ session'[q] = session[q]
    /\ instances'[q] = instances[q]
    /\ \A id \in TargetIds : /\ traces'[<<q, id>>] = traces[<<q, id>>]
                              /\ errorBuf'[<<q, id>>] = errorBuf[<<q, id>>]

\* C13: every request of a command carries the profile given to the command;
\* no step of a command changes what the service holds for another profile;
\* the outcome of trace start and of focus is the one the target list of the
\* command's own profile determines, and the target acted on is of that list;
\* start and stop print the status of the command's own profile.
C13_ProfileScoped ==
    /\ [] (pc = "running" => \A k \in 1 .. Len(pending) : pending[k].profile = cmd.profile)
    /\ [][ (pc = "running" /\ pending' # pending)
           => \A q \in Profiles \ { CmdProfile } : Untouched(q) ]_vars
    /\ [][ Returns("trace start") =>
           IF AddressedTarget.ok
           THEN exit' = <<0>> =>
                    /\ AddressedTarget.value \in Range(tabs[CmdProfile])
                    /\ traces'[<<CmdProfile, AddressedTarget.value>>] # <<>>
           ELSE exit' = <<1>> /\ stderr' = AddressedTarget.err ]_vars
    /\ [][ Returns("focus") =>
           LET t == resolve(tabs[CmdProfile], byIdOrPrefix(cmd.targetId))
           IN  IF t.ok
               THEN /\ exit' = <<0>>
                    /\ t.value \in Range(tabs[CmdProfile])
                    /\ focused'[CmdProfile] = t.value
               ELSE exit' = <<1>> /\ stderr' = t.err ]_vars
    /\ [][ ((Returns("start") \/ Returns("stop")) /\ exit' = <<0>>)
           => /\ stdout'[1].name = CmdProfile
              /\ stdout'[1].running = IsRunning(CmdProfile) ]_vars

\* both profiles run and hold a tab A; a trace was started on w1's A only,
\* and the default profile's A is the one focused there
C13_Witness ==
    /\ IsRunning(DefaultProfile) /\ IsRunning(Work)
    /\ <<"A">> \in Range(tabs[DefaultProfile]) /\ <<"A">> \in Range(tabs[Work])
    /\ tabs[DefaultProfile] # tabs[Work]
    /\ pc = "done" /\ cmd.kind = "trace start" /\ cmd.profile = Work /\ exit = <<0>>
    /\ traces[<<Work, <<"A">> >>] # <<>>
    /\ traces[<<DefaultProfile, <<"A">> >>] = <<>>
\* the step in which the service applies a tab action to the resolved target
Acts ==
    /\ Serving("tab-action")
    /\ resolving.state = "resolved"
    /\ pc' = "done"

\* C14: a tab select or tab close by index acts on the target that held the
\* index in the list the service fetched, whatever the tab set has become
\* since, or fails and changes nothing; no other tab is focused or closed.
C14_ActsOnResolvedId ==
    [][ (cmd.kind \in { "tab select", "tab close" } /\ IsFinite(cmd.index) /\ Acts) =>
        LET id == resolving.fetched[Floor(cmd.index)]
            live == tabs[CmdProfile]
        IN  \/ /\ exit' = <<1>>
               /\ id \notin Range(live)
               /\ stdout' = <<>>
               /\ tabs' = tabs /\ focused' = focused
            \/ /\ exit' = <<0>>
               /\ id \in Range(live)
               /\ resp'[1].value = id
               /\ IF cmd.kind = "tab select"
                  THEN focused'[CmdProfile] = id /\ tabs' = tabs
                  ELSE /\ Range(tabs'[CmdProfile]) = Range(live) \ { id }
                       /\ Len(tabs'[CmdProfile]) = Len(live) - 1 ]_vars

\* tab close 2 has closed A1, the second tab of the fetched list, although the
\* tab set changed before the action
C14_Witness ==
    /\ pc = "done" /\ cmd.kind = "tab close" /\ exit = <<0>>
    /\ cmd.index = Num(4)
    /\ resolving.state = "acted" /\ resolving.raced
    /\ resp[1].value = <<"A", "1">>
    /\ <<"A", "1">> \notin Range(tabs[CmdProfile])
    /\ Len(tabs[CmdProfile]) = 2

\* C15: a tab close without an index resolves to the first element of the
\* live list and closes that target, and fails with NoTargetsOpen, closing
\* nothing, when the list is empty.
C15_UnspecifiedIsFirst ==
    /\ [][ (cmd.kind = "tab close" /\ cmd.index = NoNumber /\ Resolves) =>
           LET live == tabs[CmdProfile]
           IN  IF live = <<>>
               THEN /\ pc' = "done"
                    /\ stderr' = "NoTargetsOpen"
                    /\ exit' = <<1>>
                    /\ stdout' = <<>>
                    /\ tabs' = tabs
               ELSE /\ pc' = "running"
                    /\ resolving'.targetId = live[1]
                    /\ tabs' = tabs ]_vars
    /\ [][ (Returns("tab close") /\ cmd.index = NoNumber /\ exit' = <<0>>) =>
           /\ resp'[1].value = resolving.fetched[1]
           /\ Range(tabs'[CmdProfile]) = Range(tabs[CmdProfile]) \ { resolving.fetched[1] } ]_vars

\* a tab close without an index has closed A1, the first of several tabs
C15_Witness ==
    /\ pc = "done" /\ cmd.kind = "tab close" /\ cmd.index = NoNumber /\ exit = <<0>>
    /\ resolving.state = "acted" /\ ~resolving.raced
    /\ resp[1].value = <<"A", "1">>
    /\ Len(tabs[CmdProfile]) = 2
\* the maxChars the operator asked for: --max-chars when it is a number, else the default
TypedMaxChars == IF cmd.maxChars.k = "num" THEN cmd.maxChars.h \div 2 ELSE DefaultMaxChars

\* body a is the beginning of body b (both run-length encoded, runs of
\* different characters)
IsPrefix(a, b) ==
    \/ a = <<>>
    \/ /\ Len(a) <= Len(b)
       /\ \A k \in 1 .. Len(a) - 1 : a[k] = b[k]
       /\ a[Len(a)].c = b[Len(a)].c
       /\ a[Len(a)].n <= b[Len(a)].n

\* L and M, the smaller of the two
Min(l, m) == IF l <= m THEN l ELSE m

\* C16: the body a responsebody command receives has length min(L, M), L the
\* length of the response's body and M --max-chars (default 200000), is a
\* prefix of that body, and comes with truncated = TRUE exactly when L > M;
\* the command prints that body.
C16_BodyTruncation ==
    [][ (Returns("responsebody") /\ exit' = <<0>>) =>
        LET r == resp'[1].value
            original == seen'[r.id].body
        IN  /\ Length(r.body) = Min(Length(original), TypedMaxChars)
            /\ IsPrefix(r.body, original)
            /\ r.truncated = (Length(original) > TypedMaxChars)
            /\ stdout'[1].response.body = r.body ]_vars

\* the 500000-character body was cut to the default 200000 and flagged
C16_Witness ==
    /\ pc = "done" /\ cmd.kind = "responsebody" /\ exit = <<0>>
    /\ cmd.maxChars = NoNumber
    /\ Length(seen[resp[1].value.id].body) = 500000
    /\ resp[1].value.body = <<[c |-> "x", n |-> 150000], [c |-> "y", n |-> 50000]>>
    /\ resp[1].value.truncated
\* C17: a response completing during a wait is matched against the typed
\* pattern by exact equality first, and then nothing else is evaluated; if
\* not equal, by substring, and then the glob is not evaluated; the glob is
\* evaluated only when both have failed, and then decides.
C17_MatchPrecedence ==
    [][ (Waiting /\ now < waiter.deadline /\ Len(seen') > Len(seen)) =>
        LET u == seen'[Len(seen')].url
            p == cmd.url
        IN  /\ u = p =>
                /\ evaluated' = <<"exact">>
                /\ exit' = <<0>>
            /\ (u # p /\ Includes(u, p)) =>
                /\ evaluated' = <<"exact", "substring">>
                /\ exit' = <<0>>
            /\ (u # p /\ ~Includes(u, p)) =>
                /\ evaluated' = <<"exact", "substring", "glob">>
                /\ (exit' = <<0>>) = GlobMatch(p, u) ]_vars

\* a wait for /c ended on a/c by substring: the glob was not evaluated,
\* although /c read as a glob does not match a/c
C17_Witness ==
    /\ pc = "done" /\ cmd.kind = "responsebody" /\ exit = <<0>>
    /\ cmd.url = <<"/", "c">>
    /\ resp[1].value.url = <<"a", "/", "c">>
    /\ evaluated = <<"exact", "substring">>
    /\ ~GlobMatch(cmd.url, resp[1].value.url)
\* the argument is absent or only whitespace
Blank(targetId) ==
    targetId = Undefined \/ \A k \in 1 .. Len(targetId) : targetId[k] = " "

\* C20: a close command has exactly one request to send, and none once it is
\* answered: the generic act request of kind close, naming no target, when
\* the argument is absent or only whitespace, and close-tab with the trimmed
\* argument otherwise; in both cases with the command's profile.
C20_CloseSendsOneRequest ==
    /\ [] ( (pc = "running" /\ cmd.kind = "close") =>
            /\ Len(pending) = 1
            /\ resp = <<>>
            /\ IF Blank(cmd.targetId)
               THEN pending[1] = [kind |-> "act", request |-> [kind |-> "close"],
                                  profile |-> cmd.profile]
               ELSE pending[1] = [kind |-> "close-tab", targetId |-> Trim(cmd.targetId),
                                  profile |-> cmd.profile] )
    /\ [][ Returns("close") => (pending' = <<>> /\ Len(resp') <= 1) ]_vars

\* close with a blank argument succeeded: the service closed its current tab
C20_Witness ==
    /\ pc = "done" /\ cmd.kind = "close" /\ cmd.targetId = <<" ">> /\ exit = <<0>>
    /\ Len(resp) = 1
    /\ resp[1].value = <<"A", "1">>
    /\ <<"A">> \in Range(tabs[CmdProfile])
\* C18: a command whose request finds the control service unreachable, or
\* loses it while the request is served, ends with ServiceUnavailable on
\* stderr and exit status 1 and prints nothing on stdout; no request succeeds
\* while the service is unreachable; ResponseTimeout is reported only by a
\* reachable service; a command facing an unreachable service always ends.
C18_UnreachableEndsCommand ==
    /\ [][ (pc = "running" /\ (~reachable \/ ~reachable')) =>
           /\ pending' # pending => pc' = "done"
           /\ pc' = "done" =>
               /\ stderr' = "ServiceUnavailable"
               /\ stderr' # "ResponseTimeout"
               /\ exit' = <<1>>
               /\ stdout' = <<>> ]_vars
    /\ [][ (pc = "running" /\ pc' = "done" /\ stderr' = "ResponseTimeout")
           => (reachable /\ reachable') ]_vars
    /\ ((pc = "running" /\ ~reachable) ~> (pc = "done"))

\* a start command lost the service after its first request and ended with
\* ServiceUnavailable
C18_Witness ==
    /\ pc = "done" /\ cmd.kind = "start" /\ ~reachable
    /\ Len(resp) = 1
    /\ stderr = "ServiceUnavailable" /\ exit = <<1>> /\ stdout = <<>>
\* C19: no step of a responsebody command, from its request to its end by a
\* response, a timeout or an interruption, changes the profiles, sessions,
\* targets, traces or error buffers of the service; an interruption before
\* the deadline ends the command without output and leaves the wait
\* abandoned, and an abandoned wait is never answered.
C19_InterruptedWaitLeavesNoTrace ==
    /\ [][ (pc = "running" /\ cmd.kind = "responsebody"
              /\ (pc' # pc \/ pending' # pending \/ waiter' # waiter))
           => UNCHANGED <<registry, tabs, focused, session, instances, launches,
                          traces, errorBuf>> ]_vars
    /\ [][ (Waiting /\ now < waiter.deadline /\ pc' = "done" /\ resp' = resp /\ stderr' = stderr)
           => /\ waiter'.state = "abandoned"
              /\ stdout' = <<>>
              /\ exit' \notin { <<0>>, <<1>> } ]_vars
    /\ [][ (waiter.state = "abandoned" /\ pc = "done" /\ pc' = "done")
           => UNCHANGED <<resp, stdout, stderr, exit>> ]_vars

\* a wait on the focused tab A was interrupted before its deadline, after a
\* response that did not match and while page errors were buffered
C19_Witness ==
    /\ pc = "done" /\ cmd.kind = "responsebody" /\ exit = <<130>>
    /\ waiter.state = "abandoned" /\ now < waiter.deadline
    /\ seen # <<>>
    /\ focused[DefaultProfile] = <<"A">>
    /\ errorBuf[<<DefaultProfile, <<"A">> >>] # <<>>
    /\ stdout = <<>>
\* C21: a tab close command given an index has either a close request with
\* index floor(index) - 1 >= 0 to send, or has ended with an error, exit
\* status 1 and no request sent; a close request without an index is sent
\* only when the index was omitted.
C21_TabCloseIndexOrError ==
    (cmd.kind = "tab close" /\ cmd.index # NoNumber) =>
        IF IsFinite(cmd.index) /\ cmd.index.h >= 2
        THEN pc = "running" =>
                 /\ Len(pending) = 1
                 /\ "index" \in DOMAIN pending[1]
                 /\ pending[1].index = Floor(cmd.index) - 1
                 /\ pending[1].index >= 0
        ELSE /\ pc = "done"
             /\ exit = <<1>>
             /\ stderr # ""
             /\ resp = <<>> /\ pending = <<>> /\ stdout = <<>>

\* C22: a tab select command whose index is not a finite number or is below
\* 1 has ended with an error and exit status 1 without a request; every
\* other one has the single select request with the 0-based index
\* floor(index) - 1 >= 0 to send.
C22_TabSelectIndexChecked ==
    cmd.kind = "tab select" =>
        IF cmd.index.k # "num" \/ cmd.index.h < 2
        THEN /\ pc = "done"
             /\ exit = <<1>>
             /\ stderr = "index must be a positive number"
             /\ resp = <<>> /\ pending = <<>> /\ stdout = <<>>
        ELSE pc = "running" =>
                 /\ Len(pending) = 1
                 /\ pending[1].kind = "tab-action" /\ pending[1].action = "select"
                 /\ pending[1].index = cmd.index.h \div 2 - 1
                 /\ pending[1].index >= 0

\* tab select 1.5 waits to send index 0
C22_Witness ==
    /\ pc = "running" /\ cmd.kind = "tab select" /\ cmd.index = Num(3)
    /\ pending[1].index = 0

\* C23: a start or stop command first has its own request and then the
\* status request of the same profile to send; the status request is the
\* only one left exactly when the first was answered without error; when
\* the first fails the command ends at once with the error on stderr,
\* exit status 1, nothing printed and the status request dropped.
C23_StatusOnlyAfterSuccess ==
    /\ [] ( (pc = "running" /\ cmd.kind \in { "start", "stop" }) =>
            \/ /\ resp = <<>>
               /\ pending = <<[kind |-> cmd.kind, profile |-> cmd.profile],
                              [kind |-> "get-status", profile |-> cmd.profile]>>
            \/ /\ Len(resp) = 1 /\ resp[1].ok
               /\ pending = <<[kind |-> "get-status", profile |-> cmd.profile]>> )
    /\ [][ (pc = "running" /\ cmd.kind \in { "start", "stop" } /\ resp = <<>>
              /\ pending' # pending /\ Len(pending') # 1)
           => /\ pc' = "done"
              /\ pending' = <<>>
              /\ resp' = <<>>
              /\ stderr' # ""
              /\ exit' = <<1>>
              /\ stdout' = <<>> ]_vars
    /\ [] ( (pc = "done" /\ cmd.kind \in { "start", "stop" } /\ stdout # <<>>)
            => (Len(resp) = 2 /\ resp[1].ok /\ resp[2].ok /\ exit = <<0>>) )

\* a stop of a profile the registry does not hold has failed: no status
C23_Witness ==
    /\ pc = "done" /\ cmd.kind = "stop" /\ cmd.profile = <<"a">>
    /\ stderr = "UnknownProfile" /\ exit = <<1>>
    /\ resp = <<>> /\ stdout = <<>>
====
